---- MODULE Spec2Model ----
(***************************************************************************)
(* Model of src/peer/mod.rs: the peer message Listener (try_run_loop/run), *)
(* the Handler trait it drives, and the Display rendering of PeerSocket.   *)
(***************************************************************************)
EXTENDS Naturals, Sequences, FiniteSets

\* ------------------------------------------------------------------ bounds

\* Number of receive attempts (calls of recv_message) explored in one run.
MaxAttempts == 3

\* Number of receive attempts each of two Listeners run side by side makes.
PairAttempts == 2

\* ------------------------------------------------------------- value sets

\* Decoded messages, <Unmarshaller<T> as Unmarshall>::Data.
Messages == {"A", "B"}

\* internet2::presentation::Error values recv_message can fail with: a
\* failure to receive the raw frame, or a payload that does not decode.
PresentationErrors == {"Transport", "Decode"}

\* Errors the application's Handler creates by itself.
AppErrors == {"E1", "E2"}

\* From<Error> for H::Error, applied by the `?` of run() (line 112).
From(e) == <<"From", e>>

\* H::Error: what From yields, and the application's own errors.
HandlerErrors == {From(e) : e \in PresentationErrors} \cup {<<"App", a>> : a \in AppErrors}

\* Result<_, _> values.
Ok(v) == <<"Ok", v>>
Err(e) == <<"Err", e>>
IsOk(r) == r[1] = "Ok"
IsErr(r) == r[1] = "Err"

Unit == "()"

\* What one call of PeerReceiver::recv_message can return.
RecvOutcomes == {Ok(m) : m \in Messages} \cup {Err(e) : e \in PresentationErrors}

\* What Handler::handle and Handler::handle_err can return.
HandlerResults == {Ok(Unit)} \cup {Err(e) : e \in HandlerErrors}

\* ------------------------------------------------------------------ state

VARIABLES
    pc,         \* position of the loop: "run", "handle", "match", "done"
    msg,        \* local `msg` of run(), Ok(m) once received
    runResult,  \* value run() returned to the match of try_run_loop
    result,     \* what try_run_loop returned: <<"Running">> until it returns
    trace,      \* history: every recv_message, handle and handle_err call
    handler,    \* the Handler's own state, opaque to the loop
    inst,       \* two Listeners run side by side, each a record of the above
    epA, epB,   \* two PeerSocket values given to Display
    outA, outB  \* their renderings, <<>> before fmt has run

loopVars == <<pc, msg, runResult, result, trace, handler>>
renderVars == <<epA, epB, outA, outB>>
vars == <<pc, msg, runResult, result, trace, handler, inst, epA, epB, outA, outB>>

NoMsg == <<"None">>
NoResult == <<"None">>
Running == <<"Running">>

Call(op, arg, ret) == [op |-> op, arg |-> arg, ret |-> ret]

\* The Handler's state is its own: handle and handle_err take &mut self and
\* may change it. The state is the number of calls the Handler has served.
NewHandler == 0
Served(h) == h + 1

\* A Listener as one value: the loop's position and locals, its history, and
\* the Handler it owns.
LoopInit ==
    [pc |-> "run", msg |-> NoMsg, runResult |-> NoResult, result |-> Running,
     trace |-> <<>>, handler |-> NewHandler]

\* The outcomes and callback results two Listeners side by side are run on.
PairRecvOutcomes == {Ok("A"), Err("Transport"), Err("Decode")}
PairHandlerResults == {Ok(Unit), Err(<<"App", "E1">>)}

Instances == {1, 2}

\* Number of recv_message calls made so far.
RECURSIVE CountOp(_, _)
CountOp(s, op) ==
    IF s = <<>> THEN 0
    ELSE (IF Head(s).op = op THEN 1 ELSE 0) + CountOp(Tail(s), op)

Attempts == CountOp(trace, "recv")

\* ------------------------------------------------- PeerSocket and Display
\* Strings are sequences of one-character strings.

Digits == <<"0", "1", "2", "3", "4", "5", "6", "7", "8", "9", "a", "b", "c", "d", "e", "f">>

\* An unsigned integer in the given base, without leading zeros.
RECURSIVE NumStr(_, _)
NumStr(n, base) ==
    IF n < base THEN <<Digits[n + 1]>>
    ELSE NumStr(n \div base, base) \o <<Digits[(n % base) + 1]>>

DecStr(n) == NumStr(n, 10)
HexStr(n) == NumStr(n, 16)

\* The elements of a sequence of strings joined by a separator.
RECURSIVE Join(_, _)
Join(parts, sep) ==
    IF parts = <<>> THEN <<>>
    ELSE IF Len(parts) = 1 THEN parts[1]
    ELSE parts[1] \o sep \o Join(Tail(parts), sep)

\* Display of Ipv4Addr: the four octets in decimal, dotted.
Ipv4Display(ip) == Join([i \in 1..4 |-> DecStr(ip[i])], <<".">>)

\* The number of zero segments from position i on.
RECURSIVE ZeroRun(_, _)
ZeroRun(segs, i) ==
    IF i > Len(segs) \/ segs[i] # 0 THEN 0 ELSE 1 + ZeroRun(segs, i + 1)

HexSegs(segs) == Join([i \in 1..Len(segs) |-> HexStr(segs[i])], <<":">>)

\* Display of Ipv6Addr: an IPv4-mapped address as ::ffff:a.b.c.d; otherwise
\* the eight segments in hexadecimal with the first longest run of two or
\* more zero segments written as "::".
Ipv6Display(segs) ==
    IF SubSeq(segs, 1, 6) = <<0, 0, 0, 0, 0, 65535>>
    THEN <<":", ":", "f", "f", "f", "f", ":">> \o
         Ipv4Display(<<segs[7] \div 256, segs[7] % 256, segs[8] \div 256, segs[8] % 256>>)
    ELSE LET longest == CHOOSE n \in 0..8 :
                 /\ \E i \in 1..8 : ZeroRun(segs, i) = n
                 /\ \A i \in 1..8 : ZeroRun(segs, i) <= n
             start == CHOOSE i \in 1..8 :
                 /\ ZeroRun(segs, i) = longest
                 /\ \A j \in 1..(i-1) : ZeroRun(segs, j) < longest
         IN IF longest > 1
            THEN HexSegs(SubSeq(segs, 1, start - 1)) \o <<":", ":">> \o
                 HexSegs(SubSeq(segs, start + longest, 8))
            ELSE HexSegs(segs)

\* std::net::SocketAddr: V4(ip, port) or V6(ip, port, flowinfo, scope_id).
\* Its Display writes ip:port, [ip]:port or [ip%scope_id]:port; the flow
\* information of a V6 address is not written.
SocketAddrDisplay(a) ==
    IF a.v = 4
    THEN Ipv4Display(a.ip) \o <<":">> \o DecStr(a.port)
    ELSE <<"[">> \o Ipv6Display(a.ip) \o
         (IF a.scope_id = 0 THEN <<>> ELSE <<"%">> \o DecStr(a.scope_id)) \o
         <<"]", ":">> \o DecStr(a.port)

\* internet2::addr::NodeAddr: a node id and the address it is reached at,
\* written id@address:port.
NodeAddrDisplay(n) ==
    n.id \o <<"@">> \o Ipv4Display(n.ip) \o <<":">> \o DecStr(n.port)

ListenPrefix == <<"-", "-", "l", "i", "s", "t", "e", "n", "=">>
ConnectPrefix == <<"-", "-", "c", "o", "n", "n", "e", "c", "t", "=">>

\* PeerSocket::Listen(SocketAddr), PeerSocket::Connect(NodeAddr).
Listen(a) == <<"Listen", a>>
Connect(n) == <<"Connect", n>>

\* The display format of Connect copied from Listen.
PeerSocketDisplay_SamePrefix(e) ==
    IF e[1] = "Listen"
    THEN ListenPrefix \o SocketAddrDisplay(e[2])
    ELSE ListenPrefix \o NodeAddrDisplay(e[2])

\* #[derive(Display)] of PeerSocket: #[display("--listen={0}")] and
\* #[display("--connect={0}")].
PeerSocketDisplay(e) ==
    IF e[1] = "Listen"
    THEN ListenPrefix \o SocketAddrDisplay(e[2])
    ELSE ConnectPrefix \o NodeAddrDisplay(e[2])

\* The addresses the renderings are tried on.
Ipv4Addrs == {<<127, 0, 0, 1>>, <<10, 0, 0, 12>>}
Ipv6Addrs == {<<0, 0, 0, 0, 0, 0, 0, 1>>, <<65152, 0, 0, 0, 0, 0, 0, 1>>, <<0, 0, 0, 0, 0, 65535, 32512, 1>>}
Ports == {80, 9735}
FlowInfos == {0, 1}
ScopeIds == {0, 2}
NodeIds == {<<"0", "2", "a", "b">>, <<"0", "3", "c", "d">>}

SocketAddrs ==
    [v : {4}, ip : Ipv4Addrs, port : Ports, flowinfo : {0}, scope_id : {0}] \cup
    [v : {6}, ip : Ipv6Addrs, port : {9735}, flowinfo : FlowInfos, scope_id : ScopeIds]

NodeAddrs == [id : NodeIds, ip : Ipv4Addrs, port : {9735}]

PeerSockets == {Listen(a) : a \in SocketAddrs} \cup {Connect(n) : n \in NodeAddrs}

\* ------------------------------------------------ variants of the loop
\* Each is one of the loop's steps as a slip in the code would make it; the
\* properties below tell the loop from each of them.

\* run() returning Ok(()) without calling handle.
RunHandle_Skipped ==
    /\ pc = "handle"
    /\ runResult' = Ok(Unit)
    /\ msg' = NoMsg
    /\ pc' = "match"
    /\ UNCHANGED <<result, trace, handler, renderVars, inst>>

\* An error of handle returned from the loop at once, not passed to
\* handle_err.
RunHandle_Fatal ==
    /\ pc = "handle"
    /\ \E r \in HandlerResults :
        /\ trace' = Append(trace, Call("handle", msg[2], r))
        /\ IF IsErr(r)
           THEN /\ runResult' = NoResult
                /\ result' = r
                /\ pc' = "done"
           ELSE /\ runResult' = r
                /\ result' = result
                /\ pc' = "match"
    /\ msg' = NoMsg
    /\ handler' = Served(handler)
    /\ UNCHANGED <<renderVars, inst>>

\* An error of handle replaced by a fixed one on its way out of run().
RunHandle_ErrReplaced ==
    /\ pc = "handle"
    /\ \E r \in HandlerResults :
        /\ trace' = Append(trace, Call("handle", msg[2], r))
        /\ runResult' = IF IsErr(r) THEN Err(From("Transport")) ELSE r
    /\ msg' = NoMsg
    /\ pc' = "match"
    /\ handler' = Served(handler)
    /\ UNCHANGED <<result, renderVars, inst>>

\* Every receive error turned into the same H::Error, its kind lost.
RunRecv_KindLost ==
    /\ pc = "run"
    /\ Attempts < MaxAttempts
    /\ \E r \in RecvOutcomes :
        /\ trace' = Append(trace, Call("recv", Attempts + 1, r))
        /\ IF IsOk(r)
           THEN /\ msg' = r
                /\ runResult' = NoResult
                /\ pc' = "handle"
           ELSE /\ msg' = NoMsg
                /\ runResult' = Err(From("Transport"))
                /\ pc' = "match"
    /\ UNCHANGED <<result, handler, renderVars, inst>>

\* handle_err(err) without the `?`: its result dropped.
MatchErr_Ignored ==
    /\ pc = "match"
    /\ IsErr(runResult)
    /\ \E r \in HandlerResults :
        trace' = Append(trace, Call("handle_err", runResult[2], r))
    /\ pc' = "run"
    /\ runResult' = NoResult
    /\ handler' = Served(handler)
    /\ UNCHANGED <<msg, result, renderVars, inst>>

\* The loop returning the error of run() even when handle_err returned Ok.
MatchErr_AlwaysFatal ==
    /\ pc = "match"
    /\ IsErr(runResult)
    /\ \E r \in HandlerResults :
        /\ trace' = Append(trace, Call("handle_err", runResult[2], r))
        /\ result' = IF IsErr(r) THEN Err(r[2]) ELSE runResult
    /\ pc' = "done"
    /\ runResult' = NoResult
    /\ handler' = Served(handler)
    /\ UNCHANGED <<msg, renderVars, inst>>

\* Ok(_) => return Ok(()): the loop ending after one processed message.
MatchOk_Returns ==
    /\ pc = "match"
    /\ IsOk(runResult)
    /\ runResult' = NoResult
    /\ result' = Ok(Unit)
    /\ pc' = "done"
    /\ UNCHANGED <<msg, trace, handler, renderVars, inst>>

\* Err(err) => trace!(..) only: the error logged and the loop going round,
\* handle_err not called.
MatchErr_Swallowed ==
    /\ pc = "match"
    /\ IsErr(runResult)
    /\ runResult' = NoResult
    /\ pc' = "run"
    /\ UNCHANGED <<msg, result, trace, handler, renderVars, inst>>

\* The error of handle_err stored as the result, the loop not left.
MatchErr_KeepsGoing ==
    /\ pc = "match"
    /\ IsErr(runResult)
    /\ \E r \in HandlerResults :
        /\ trace' = Append(trace, Call("handle_err", runResult[2], r))
        /\ result' = IF IsErr(r) THEN Err(r[2]) ELSE result
    /\ pc' = "run"
    /\ runResult' = NoResult
    /\ handler' = Served(handler)
    /\ UNCHANGED <<msg, renderVars, inst>>

\* A message whose handle failed given to handle again once handle_err has
\* returned Ok.
MatchErr_Redelivered ==
    /\ pc = "match"
    /\ IsErr(runResult)
    /\ \E r \in HandlerResults :
        /\ trace' = Append(trace, Call("handle_err", runResult[2], r))
        /\ IF IsErr(r)
           THEN /\ result' = Err(r[2])
                /\ pc' = "done"
                /\ msg' = msg
           ELSE /\ result' = result
                /\ IF trace[Len(trace)].op = "handle"
                   THEN pc' = "handle" /\ msg' = Ok(trace[Len(trace)].arg)
                   ELSE pc' = "run" /\ msg' = msg
    /\ runResult' = NoResult
    /\ handler' = Served(handler)
    /\ UNCHANGED <<renderVars, inst>>

\* The Handler built anew on every round of the loop.
MatchOk_NewHandler ==
    /\ pc = "match"
    /\ IsOk(runResult)
    /\ runResult' = NoResult
    /\ pc' = "run"
    /\ handler' = NewHandler
    /\ UNCHANGED <<msg, result, trace, renderVars, inst>>

\* ---------------------------------------------------------------- the loop

\* run(), line 112: recv_message(&self.unmarshaller)?  On Ok the message is
\* bound to msg and run goes on to handle; on Err the `?` converts the error
\* with From and run returns it.
RunRecv ==
    /\ pc = "run"
    /\ Attempts < MaxAttempts
    /\ \E r \in RecvOutcomes :
        /\ trace' = Append(trace, Call("recv", Attempts + 1, r))
        /\ IF IsOk(r)
           THEN /\ msg' = r
                /\ runResult' = NoResult
                /\ pc' = "handle"
           ELSE /\ msg' = NoMsg
                /\ runResult' = Err(From(r[2]))
                /\ pc' = "match"
    /\ UNCHANGED <<result, handler, renderVars, inst>>

\* run(), line 115: self.handler.handle(msg) is the value of run.
RunHandle ==
    /\ pc = "handle"
    /\ \E r \in HandlerResults :
        /\ trace' = Append(trace, Call("handle", msg[2], r))
        /\ runResult' = r
    /\ msg' = NoMsg
    /\ pc' = "match"
    /\ handler' = Served(handler)
    /\ UNCHANGED <<result, renderVars, inst>>

\* try_run_loop, line 92: Ok(_) => trace!(..), and the loop goes round.
MatchOk ==
    /\ pc = "match"
    /\ IsOk(runResult)
    /\ runResult' = NoResult
    /\ pc' = "run"
    /\ UNCHANGED <<msg, result, trace, handler, renderVars, inst>>

\* try_run_loop, lines 93-96: Err(err) => self.handler.handle_err(err)?
\* An Err of handle_err is returned from try_run_loop; on Ok the loop goes
\* round.
MatchErr ==
    /\ pc = "match"
    /\ IsErr(runResult)
    /\ \E r \in HandlerResults :
        /\ trace' = Append(trace, Call("handle_err", runResult[2], r))
        /\ IF IsErr(r)
           THEN /\ result' = Err(r[2])
                /\ pc' = "done"
           ELSE /\ result' = result
                /\ pc' = "run"
    /\ runResult' = NoResult
    /\ handler' = Served(handler)
    /\ UNCHANGED <<msg, renderVars, inst>>

\* Listener::with followed by the entry into try_run_loop.
Init ==
    /\ pc = "run"
    /\ msg = NoMsg
    /\ runResult = NoResult
    /\ result = Running
    /\ trace = <<>>
    /\ handler = NewHandler
    /\ inst = [i \in Instances |-> LoopInit]
    /\ epA = <<"None">>
    /\ epB = <<"None">>
    /\ outA = <<>>
    /\ outB = <<>>

Next ==
    \/ RunRecv
    \/ RunHandle
    \/ MatchOk
    \/ MatchErr

Spec == Init /\ [][Next]_vars

\* The loop is the only thread of control and goes on whenever it can: the
\* receiver returns, and so does each callback.
SpecFair ==
    /\ Spec
    /\ WF_vars(RunRecv)
    /\ WF_vars(RunHandle)
    /\ WF_vars(MatchOk)
    /\ WF_vars(MatchErr)

\* ------------------------------------------------- two Listeners side by side
\* The steps of the loop as functions of a Listener value l.

\* run(), line 112, recv_message returning r.
RecvStep(l, r) ==
    [l EXCEPT !.trace = Append(@, Call("recv", CountOp(l.trace, "recv") + 1, r)),
              !.msg = IF IsOk(r) THEN r ELSE NoMsg,
              !.runResult = IF IsOk(r) THEN NoResult ELSE Err(From(r[2])),
              !.pc = IF IsOk(r) THEN "handle" ELSE "match"]

\* run(), line 115, handle returning r.
HandleStep(l, r) ==
    [l EXCEPT !.trace = Append(@, Call("handle", l.msg[2], r)),
              !.runResult = r,
              !.msg = NoMsg,
              !.pc = "match",
              !.handler = Served(@)]

\* try_run_loop, line 92.
MatchOkStep(l) ==
    [l EXCEPT !.runResult = NoResult, !.pc = "run"]

\* try_run_loop, lines 93-96, handle_err returning r.
MatchErrStep(l, r) ==
    [l EXCEPT !.trace = Append(@, Call("handle_err", l.runResult[2], r)),
              !.result = IF IsErr(r) THEN Err(r[2]) ELSE @,
              !.pc = IF IsErr(r) THEN "done" ELSE "run",
              !.runResult = NoResult,
              !.handler = Served(@)]

\* Both Listeners driving the Handler of the first.
PairHandle_SharedHandler(i) ==
    /\ inst[i].pc = "handle"
    /\ \E r \in PairHandlerResults :
        inst' = [[inst EXCEPT ![i] = [HandleStep(inst[i], r) EXCEPT !.handler = inst[i].handler]]
                    EXCEPT ![1].handler = Served(inst[1].handler)]
    /\ UNCHANGED <<loopVars, renderVars>>

\* A payload that does not decode skipped by the loop itself, handle_err not
\* called for it.
PairMatchErr_DecodeSkipped(i) ==
    /\ inst[i].pc = "match"
    /\ IsErr(inst[i].runResult)
    /\ IF inst[i].runResult[2] = From("Decode")
       THEN inst' = [inst EXCEPT ![i] = MatchOkStep(inst[i])]
       ELSE \E r \in PairHandlerResults :
                inst' = [inst EXCEPT ![i] = MatchErrStep(inst[i], r)]
    /\ UNCHANGED <<loopVars, renderVars>>

PairRecv(i) ==
    /\ inst[i].pc = "run"
    /\ CountOp(inst[i].trace, "recv") < PairAttempts
    /\ \E r \in PairRecvOutcomes :
        inst' = [inst EXCEPT ![i] = RecvStep(inst[i], r)]
    /\ UNCHANGED <<loopVars, renderVars>>

PairHandle(i) ==
    /\ inst[i].pc = "handle"
    /\ \E r \in PairHandlerResults :
        inst' = [inst EXCEPT ![i] = HandleStep(inst[i], r)]
    /\ UNCHANGED <<loopVars, renderVars>>

PairMatchOk(i) ==
    /\ inst[i].pc = "match"
    /\ IsOk(inst[i].runResult)
    /\ inst' = [inst EXCEPT ![i] = MatchOkStep(inst[i])]
    /\ UNCHANGED <<loopVars, renderVars>>

PairMatchErr(i) ==
    /\ inst[i].pc = "match"
    /\ IsErr(inst[i].runResult)
    /\ \E r \in PairHandlerResults :
        inst' = [inst EXCEPT ![i] = MatchErrStep(inst[i], r)]
    /\ UNCHANGED <<loopVars, renderVars>>

\* Any interleaving of the two loops, each on a thread of its own.
NextPair ==
    \E i \in Instances :
        \/ PairRecv(i)
        \/ PairHandle(i)
        \/ PairMatchOk(i)
        \/ PairMatchErr(i)

SpecPair == Init /\ [][NextPair]_vars

\* The Ok arm of the match taken, when that is the loop's next step.
Settled(l) == IF l.pc = "match" /\ IsOk(l.runResult) THEN MatchOkStep(l) ELSE l

\* A Listener run alone from l on the values rets that its receiver and its
\* Handler return, in the order the loop asks for them.
RECURSIVE RunAlone(_, _)
RunAlone(l, rets) ==
    LET s == Settled(l)
    IN IF rets = <<>> \/ s.pc = "done" THEN s
       ELSE IF s.pc = "run" THEN RunAlone(RecvStep(s, Head(rets)), Tail(rets))
       ELSE IF s.pc = "handle" THEN RunAlone(HandleStep(s, Head(rets)), Tail(rets))
       ELSE RunAlone(MatchErrStep(s, Head(rets)), Tail(rets))

\* The values a Listener's receiver and Handler returned to it so far.
Returns(l) == [k \in 1..Len(l.trace) |-> l.trace[k].ret]

\* The single Listener of Spec as one value. Its actions and the step
\* functions above are two writings of the same code: in every state of Spec
\* the Listener is where the step functions take it on the values returned.
Cur ==
    [pc |-> pc, msg |-> msg, runResult |-> runResult, result |-> result,
     trace |-> trace, handler |-> handler]

StepFunctionsAgree == Settled(Cur) = RunAlone(LoopInit, Returns(Cur))

\* ------------------------------------------------------ rendering PeerSocket

\* Two PeerSocket values are constructed; the loop is not started.
InitRender ==
    /\ pc = "run"
    /\ msg = NoMsg
    /\ runResult = NoResult
    /\ result = Running
    /\ trace = <<>>
    /\ handler = NewHandler
    /\ inst = [i \in Instances |-> LoopInit]
    /\ epA \in PeerSockets
    /\ epB \in PeerSockets
    /\ outA = <<>>
    /\ outB = <<>>

\* to_string() of the first and of the second value.
FmtA ==
    /\ outA = <<>>
    /\ outA' = PeerSocketDisplay(epA)
    /\ UNCHANGED <<loopVars, inst, epA, epB, outB>>

FmtB ==
    /\ outB = <<>>
    /\ outB' = PeerSocketDisplay(epB)
    /\ UNCHANGED <<loopVars, inst, epA, epB, outA>>

NextRender ==
    \/ FmtA
    \/ FmtB

SpecRender == InitRender /\ [][NextRender]_vars

\* ------------------------------------------------- reading the history

IsRecv(c) == c.op = "recv"
IsHandle(c) == c.op = "handle"
IsHandleErr(c) == c.op = "handle_err"
IsCallback(c) == c.op \in {"handle", "handle_err"}
IsRecvOk(c) == IsRecv(c) /\ IsOk(c.ret)
IsRecvErr(c) == IsRecv(c) /\ IsErr(c.ret)

\* The receive outcomes, and the callbacks, in the order they happened.
RecvCalls == SelectSeq(trace, IsRecv)
Callbacks == SelectSeq(trace, IsCallback)
ReceivedMsgs == [i \in 1..Len(SelectSeq(trace, IsRecvOk)) |-> SelectSeq(trace, IsRecvOk)[i].ret[2]]
HandledMsgs == [i \in 1..Len(SelectSeq(trace, IsHandle)) |-> SelectSeq(trace, IsHandle)[i].arg]

Terminated == pc = "done"
Last(s) == s[Len(s)]

\* The callback a receive outcome is to be answered with, by kind and
\* argument.
ExpectedOp(c) == IF IsOk(c.ret) THEN "handle" ELSE "handle_err"
ExpectedArg(c) == IF IsOk(c.ret) THEN c.ret[2] ELSE From(c.ret[2])

\* ----------------------------------------------------------------- claims

\* C1: handle is invoked once per successfully received message, in the
\* order of receipt: the handled messages are the received ones, except for
\* one just received whose handle call is the loop's next step, and every
\* successful receive in the history is directly followed by the handle call
\* of its message, so no receive attempt starts before it.
C1_HandleOncePerMessageInOrder ==
    /\ IF pc = "handle"
       THEN /\ ReceivedMsgs = Append(HandledMsgs, msg[2])
            /\ IsRecvOk(Last(trace))
       ELSE ReceivedMsgs = HandledMsgs
    /\ \A i \in 1..Len(trace) :
        (IsRecvOk(trace[i]) /\ i < Len(trace)) =>
            /\ IsHandle(trace[i+1])
            /\ trace[i+1].arg = trace[i].ret[2]

\* Three messages were received and each was handled, the last two differing.
C1_Witness ==
    /\ Len(HandledMsgs) = 3
    /\ HandledMsgs = ReceivedMsgs
    /\ HandledMsgs[2] # HandledMsgs[3]
    /\ \A i \in 1..Len(trace) : IsOk(trace[i].ret)

C4_FatalRecvErrorStopsLoop ==
    \A i \in 1..Len(trace) :
        (IsRecvErr(trace[i]) /\ i < Len(trace) /\ IsErr(trace[i+1].ret)) =>
            /\ IsHandleErr(trace[i+1])
            /\ i + 1 = Len(trace)
            /\ Terminated
            /\ result = trace[i+1].ret
            /\ Attempts = trace[i].arg
            /\ i = 1 => Attempts = 1

\* The first receive failed to decode and handle_err returned E2.
C4_Witness ==
    /\ Len(trace) = 2
    /\ IsRecvErr(trace[1]) /\ trace[1].ret[2] = "Decode"
    /\ IsHandleErr(trace[2]) /\ trace[2].ret = Err(<<"App", "E2">>)
    /\ Terminated

\* The number of (failed receive, handle_err -> Ok) pairs the history ends
\* with.
RECURSIVE AbsorbedTail(_)
AbsorbedTail(s) ==
    IF Len(s) >= 2 /\ IsHandleErr(s[Len(s)]) /\ IsOk(s[Len(s)].ret) /\ IsRecvErr(s[Len(s)-1])
    THEN 1 + AbsorbedTail(SubSeq(s, 1, Len(s) - 2))
    ELSE 0

\* C5: after a receive failure that handle_err answered with Ok the loop
\* has not terminated and its next step is a receive attempt: the next event
\* of the history, if any, is a receive; after K such failures in a row K
\* further attempts were made or the K-th is the loop's next step.
C5_AbsorbedFailureReceivesAgain ==
    /\ \A i \in 1..Len(trace) :
        (IsRecvErr(trace[i]) /\ i < Len(trace) /\ IsOk(trace[i+1].ret)) =>
            /\ IsHandleErr(trace[i+1])
            /\ IF i + 1 = Len(trace)
               THEN pc = "run" /\ result = Running
               ELSE IsRecv(trace[i+2]) /\ trace[i+2].arg = trace[i].arg + 1
    /\ AbsorbedTail(trace) > 0 =>
        /\ ~Terminated
        /\ pc = "run"
        /\ Attempts >= AbsorbedTail(trace)

\* Two failures in a row were absorbed and a third attempt was made.
C5_Witness ==
    /\ Len(trace) = 5
    /\ AbsorbedTail(SubSeq(trace, 1, 4)) = 2
    /\ IsRecv(trace[5]) /\ trace[5].arg = 3

\* C6: a failed receive attempt is answered by one handle_err call, made
\* with that attempt's error (converted by From) before anything else
\* happens: it is the loop's next step right after the failure, the next
\* event of the history afterwards, and the event after it, if any, is the
\* next receive attempt, so handle is not called for the failed attempt.
C6_HandleErrOncePerFailedRecv ==
    \A i \in 1..Len(trace) :
        IsRecvErr(trace[i]) =>
            IF i = Len(trace)
            THEN pc = "match" /\ runResult = Err(From(trace[i].ret[2]))
            ELSE /\ IsHandleErr(trace[i+1])
                 /\ trace[i+1].arg = From(trace[i].ret[2])
                 /\ i + 1 < Len(trace) => IsRecv(trace[i+2])

\* A transport failure and a decode failure were each passed to handle_err,
\* and a receive attempt followed.
C6_Witness ==
    /\ Len(trace) = 5
    /\ trace[1].ret = Err("Transport") /\ trace[2].arg = From("Transport")
    /\ trace[3].ret = Err("Decode") /\ trace[4].arg = From("Decode")
    /\ IsRecv(trace[5])

AllCallbacksOk == \A i \in 1..Len(Callbacks) : IsOk(Callbacks[i].ret)

\* C7: while handle and handle_err return Ok, the callbacks are the receive
\* outcomes in order, a message m answered by handle(m) and a failure e by
\* handle_err(e); only the outcome of an attempt whose callback is the
\* loop's next step is still unanswered.
C7_CallbackTraceFollowsReceiveOutcomes ==
    AllCallbacksOk =>
        /\ Len(Callbacks) = (IF pc \in {"handle", "match"} /\ Len(trace) > 0 /\ IsRecv(Last(trace))
                             THEN Len(RecvCalls) - 1 ELSE Len(RecvCalls))
        /\ \A j \in 1..Len(Callbacks) :
            /\ Callbacks[j].op = ExpectedOp(RecvCalls[j])
            /\ Callbacks[j].arg = ExpectedArg(RecvCalls[j])

\* The receiver yielded A, B, a transport error, and the callbacks were
\* handle(A), handle(B), handle_err(transport error), all Ok.
C7_Witness ==
    /\ Len(RecvCalls) = 3 /\ Len(Callbacks) = 3
    /\ AllCallbacksOk
    /\ Callbacks[1].op = "handle" /\ Callbacks[1].arg = "A"
    /\ Callbacks[2].op = "handle" /\ Callbacks[2].arg = "B"
    /\ Callbacks[3].op = "handle_err" /\ Callbacks[3].arg = From("Transport")

\* C8: when the loop has returned, the last callback invoked was handle_err,
\* it returned an error, and that error is the loop's result.
C8_OnlyExitIsHandleErrError ==
    Terminated =>
        /\ Len(trace) > 0
        /\ IsHandleErr(Last(trace))
        /\ IsErr(Last(trace).ret)
        /\ result = Last(trace).ret

\* The loop returned after handle failed and handle_err returned another
\* error.
C8_Witness ==
    /\ Terminated
    /\ Len(trace) = 3
    /\ IsHandle(trace[2]) /\ trace[2].ret = Err(<<"App", "E1">>)
    /\ trace[3].ret = Err(<<"App", "E2">>)

\* C9: the loop never returns Ok: it has a result exactly when it has
\* returned, that result is an error, and it has not returned as long as no
\* callback has returned an error.
C9_NoSuccessTerminalState ==
    /\ ~IsOk(result)
    /\ Terminated <=> IsErr(result)
    /\ ~Terminated <=> result = Running
    /\ AllCallbacksOk => ~Terminated

\* Three attempts were made, every callback returned Ok, and the loop is
\* about to receive again.
C9_Witness ==
    /\ Attempts = 3
    /\ Len(Callbacks) = 3
    /\ AllCallbacksOk
    /\ pc = "run"
    /\ result = Running

BothRendered == outA # <<>> /\ outB # <<>>

\* The text a rendering carries after a prefix of the given length.
AfterPrefix(out, prefix) == SubSeq(out, Len(prefix) + 1, Len(out))
HasPrefix(out, prefix) == Len(out) >= Len(prefix) /\ SubSeq(out, 1, Len(prefix)) = prefix

\* The rendering of the address an endpoint carries.
AddrDisplay(e) == IF e[1] = "Listen" THEN SocketAddrDisplay(e[2]) ELSE NodeAddrDisplay(e[2])

\* What the claim says a rendering is.
RendersAsStated(e, out) ==
    IF e[1] = "Listen"
    THEN HasPrefix(out, ListenPrefix) /\ AfterPrefix(out, ListenPrefix) = SocketAddrDisplay(e[2])
    ELSE HasPrefix(out, ConnectPrefix) /\ AfterPrefix(out, ConnectPrefix) = NodeAddrDisplay(e[2])

\* C10 as stated: Listen(addr) renders as "--listen=" and the rendering of
\* addr, Connect(id) as "--connect=" and the rendering of id, and two
\* distinct endpoint values never render to the same string.
C10_RenderingInjective ==
    BothRendered =>
        /\ RendersAsStated(epA, outA)
        /\ RendersAsStated(epB, outB)
        /\ epA # epB => outA # outB

\* C10 as amended: the renderings are as stated; values of different
\* variants never render to the same string, and two values of the same
\* variant render to the same string exactly when their addresses do.
C10_RenderingInjectiveUpToAddressRendering ==
    BothRendered =>
        /\ RendersAsStated(epA, outA)
        /\ RendersAsStated(epB, outB)
        /\ epA[1] # epB[1] => outA # outB
        /\ epA[1] = epB[1] => (outA = outB <=> AddrDisplay(epA) = AddrDisplay(epB))

\* Two distinct Listen values whose socket addresses differ only in the
\* flow information were rendered, to the same string.
C10_Witness ==
    /\ BothRendered
    /\ epA[1] = "Listen" /\ epB[1] = "Listen"
    /\ epA[2].flowinfo # epB[2].flowinfo
    /\ [epA[2] EXCEPT !.flowinfo = 0] = [epB[2] EXCEPT !.flowinfo = 0]
    /\ outA = outB

\* An error run() came back with: one of recv_message or one of handle.
IsRunError(c) == (IsRecv(c) \/ IsHandle(c)) /\ IsErr(c.ret)
RunErrorOf(c) == IF IsRecv(c) THEN From(c.ret[2]) ELSE c.ret[2]

\* C12: no error is dropped by the loop: an error of a receive attempt or of
\* handle is either what the loop is about to give to handle_err, or was
\* given to handle_err as the very next event; and something follows that
\* handle_err call only if it returned Ok, while an error it returned is the
\* loop's result.
C12_NoErrorSuppressed ==
    \A i \in 1..Len(trace) :
        IsRunError(trace[i]) =>
            IF i = Len(trace)
            THEN pc = "match" /\ runResult = Err(RunErrorOf(trace[i]))
            ELSE /\ IsHandleErr(trace[i+1])
                 /\ trace[i+1].arg = RunErrorOf(trace[i])
                 /\ i + 1 < Len(trace) => IsOk(trace[i+1].ret)
                 /\ IsErr(trace[i+1].ret) => (Terminated /\ result = trace[i+1].ret)

\* A receive error and an error of handle were both absorbed by handle_err
\* and the loop went on.
C12_Witness ==
    /\ Len(trace) = 6
    /\ IsRecvErr(trace[1]) /\ IsHandleErr(trace[2]) /\ IsOk(trace[2].ret)
    /\ IsHandle(trace[4]) /\ IsErr(trace[4].ret)
    /\ IsHandleErr(trace[5]) /\ IsOk(trace[5].ret)
    /\ IsRecv(trace[6])

\* A state the model stops in only because the history is bounded: the loop
\* is at its receive step and the receiver would be asked again.
AtBound == pc = "run" /\ Attempts = MaxAttempts

\* C13: once the loop has a result nothing happens any more: no receive
\* attempt, no callback, no change of the result, the position or the
\* Handler; a loop that has returned has no step left, and every state in
\* which it has not returned has one (the receiver and the callbacks return).
C13_TerminatedAbsorbingAndOnlyTerminal ==
    /\ [][result # Running => UNCHANGED <<pc, msg, runResult, result, trace, handler>>]_vars
    /\ [](Terminated => ~ENABLED Next)
    /\ []((~Terminated /\ ~AtBound) => ENABLED Next)

\* The loop returned an error after two absorbed failures, and has no step.
C13_Witness ==
    /\ Terminated
    /\ Len(trace) = 6
    /\ IsErr(result)
    /\ ~ENABLED Next

\* C15: the Handler's state changes only in a step that is a handle or
\* handle_err call; a receive attempt leaves it alone and starts only when
\* no message awaits handle and no error awaits handle_err, so no callback
\* is pending or running; the steps that add no call leave it alone; it has
\* changed once per callback served.
C15_HandlerStateOnlyInCallbacks ==
    /\ [][/\ handler' # handler =>
               /\ trace' = Append(trace, Last(trace'))
               /\ IsCallback(Last(trace'))
               /\ pc \in {"handle", "match"}
          /\ (Len(trace') > Len(trace) /\ IsRecv(Last(trace'))) =>
               /\ handler' = handler
               /\ pc = "run" /\ msg = NoMsg /\ runResult = NoResult
          /\ trace' = trace => handler' = handler]_vars
    /\ [](handler = Len(Callbacks))

\* The Handler served handle and handle_err, and a receive attempt made
\* after them left its state as it was.
C15_Witness ==
    /\ Len(trace) = 4
    /\ IsHandle(trace[2]) /\ IsHandleErr(trace[3]) /\ IsRecv(trace[4])
    /\ handler = 2

\* C16: after handle has returned an error E for the message of attempt n,
\* handle_err(E) is the next call and the only one before attempt n + 1; if
\* it returned Ok the next event is attempt n + 1, and every later handle
\* call is for the message of a later attempt, so the failed message is not
\* handled again; if it returned an error E2 the loop has returned Err(E2).
C16_HandleErrorHandledOnceThenFreshReceive ==
    \A i \in 2..Len(trace) :
        (IsHandle(trace[i]) /\ IsErr(trace[i].ret)) =>
            /\ IsRecvOk(trace[i-1])
            /\ i < Len(trace) =>
                /\ trace[i+1] = Call("handle_err", trace[i].ret[2], trace[i+1].ret)
                /\ \A j \in (i+2)..Len(trace) :
                    /\ j = i + 2 => trace[j].op = "recv" /\ trace[j].arg = trace[i-1].arg + 1
                    /\ IsHandle(trace[j]) =>
                        (IsRecvOk(trace[j-1]) /\ trace[j-1].arg > trace[i-1].arg)
                /\ (IsOk(trace[i+1].ret) /\ Len(trace) = i + 1) =>
                    (pc = "run" /\ result = Running)
                /\ IsErr(trace[i+1].ret) =>
                    (Len(trace) = i + 1 /\ Terminated /\ result = trace[i+1].ret)

\* handle failed for A, handle_err absorbed the error, and the next attempt
\* brought A again, which was handled as a new message.
C16_Witness ==
    /\ Len(trace) = 5
    /\ trace[2] = Call("handle", "A", Err(<<"App", "E2">>))
    /\ IsHandleErr(trace[3]) /\ IsOk(trace[3].ret)
    /\ trace[4] = Call("recv", 2, Ok("A"))
    /\ trace[5] = Call("handle", "A", Ok(Unit))

\* C14: the loop is never stuck short of its return; every run either
\* returns or goes on receiving, making every attempt the history has room
\* for and coming back to the receive step; and a message the receiver has
\* yielded is eventually passed to handle.
C14_Progress ==
    /\ []((~Terminated /\ ~AtBound) => ENABLED Next)
    /\ <>(Terminated \/ AtBound)
    /\ \A n \in 1..MaxAttempts :
        <>(Terminated \/ Attempts >= n)
    /\ [](pc = "handle" => <>(HandledMsgs = ReceivedMsgs))

\* Every attempt was made, none was fatal, and the two messages received
\* were handled.
C14_Witness ==
    /\ AtBound
    /\ Len(ReceivedMsgs) = 2
    /\ HandledMsgs = ReceivedMsgs
    /\ \E i \in 1..Len(trace) : IsRecvErr(trace[i])

\* Two calls that gave the loop the same input, but for the kind of a
\* receive failure: the same message or a failure each, or the same result
\* of the same callback.
SameInputButKind(a, b) ==
    /\ a.op = b.op
    /\ a.ret[1] = b.ret[1]
    /\ (IsRecvErr(a) \/ a.ret[2] = b.ret[2])

ShorterTrace == IF Len(inst[1].trace) <= Len(inst[2].trace) THEN Len(inst[1].trace) ELSE Len(inst[2].trace)

\* C11: the loop does not tell a decode failure from a transport failure.
\* For two runs whose inputs so far agree but for the kind of the failed
\* receive attempts, the next call is of the same kind in both (the same
\* receive attempt, handle of the same message, or handle_err); and when
\* both have made as many calls they have both returned or both not, with
\* the same result, and are at the same step.
C11_DecodeAndTransportFailuresAlike ==
    LET t1 == inst[1].trace
        t2 == inst[2].trace
    IN /\ \A k \in 1..ShorterTrace :
            (\A j \in 1..(k-1) : SameInputButKind(t1[j], t2[j])) =>
                /\ t1[k].op = t2[k].op
                /\ t1[k].op = "recv" => t1[k].arg = t2[k].arg
                /\ t1[k].op = "handle" => t1[k].arg = t2[k].arg
       /\ (Len(t1) = Len(t2) /\ \A j \in 1..Len(t1) : SameInputButKind(t1[j], t2[j])) =>
            /\ Settled(inst[1]).pc = Settled(inst[2]).pc
            /\ inst[1].result = inst[2].result
            /\ inst[1].handler = inst[2].handler

\* One run met a transport failure where the other met a decode failure;
\* handle_err returned Ok in both, and both went on to the same second
\* attempt and handled its message.
C11_Witness ==
    /\ Len(inst[1].trace) = 4 /\ Len(inst[2].trace) = 4
    /\ inst[1].trace[1].ret = Err("Transport")
    /\ inst[2].trace[1].ret = Err("Decode")
    /\ \A j \in 1..4 : SameInputButKind(inst[1].trace[j], inst[2].trace[j])
    /\ IsOk(inst[1].trace[2].ret)
    /\ IsHandle(inst[1].trace[4]) /\ IsHandle(inst[2].trace[4])

\* C17: two Listeners interleaved do not interfere: a step of one leaves the
\* other as it was, and under every interleaving each is in the state, with
\* the receive attempts, callbacks, Handler state and result, that it
\* reaches when run alone on the values its own receiver and Handler
\* returned.
C17_InstancesDoNotInterfere ==
    /\ [][\A i \in Instances :
            inst'[i] # inst[i] => \A j \in Instances \ {i} : inst'[j] = inst[j]]_vars
    /\ [](\A i \in Instances : Settled(inst[i]) = RunAlone(LoopInit, Returns(inst[i])))

\* Both Listeners have made calls, the first has returned an error while the
\* second, which handled a message, is still running.
C17_Witness ==
    /\ inst[1].pc = "done"
    /\ inst[2].pc = "run"
    /\ Len(inst[1].trace) = 4
    /\ Len(inst[2].trace) = 4
    /\ inst[2].handler = 2
    /\ \E k \in 1..4 : IsHandle(inst[2].trace[k])

====
